---- MODULE Spec2Model ----
(***************************************************************************)
(* Model of the expresso compression codec (src/expresso/compression.py)   *)
(* driven as in src/examples/basic_usage.py and src/expresso/cli.py:       *)
(* one compress_skymap call on an input, then one decompress_skymap call   *)
(* on the returned dictionary or on a dictionary loaded from a file.       *)
(*                                                                         *)
(* Arrays hold finite numbers (small integers stand for the float64       *)
(* values); a ratio is the exact fraction <<num, den>>.                    *)
(***************************************************************************)
EXTENDS Integers, Sequences, FiniteSets, TLC

VARIABLES
    skymap,             \* compress_skymap argument: the input object
    method,             \* compress_skymap argument: the method name
    compression_ratio,  \* compress_skymap argument: <<num, den>>
    pc,                 \* the function about to run, or where the run ended
    compressed,         \* the dictionary compress_skymap returned, or None
    compressed_data,    \* decompress_skymap argument, or None
    decompressed,       \* the array decompress_skymap returned, or None
    raised,             \* the exception that ended a call, or None
    warned,             \* warnings.warn messages issued so far
    calls,              \* functions entered so far, in order
    log,                \* the public calls that have ended: function, argument, outcome
    heap,               \* config.py: the dict objects, by identity
    configs,            \* config.py: the Config objects; each holds the identity of its _config dict
    _global_config,     \* config.py: the Config object the module global is bound to
    ops,                \* config.py: the configuration calls that have ended
    buffers,            \* skymap.py: the memory blocks of the arrays, by identity
    maps,               \* skymap.py: the SkyMap objects; data is an array over a block
    map_ops,            \* skymap.py: the SkyMap calls that have ended
    threads,            \* the calls of concurrent threads: function, arguments, position, result
    frames              \* the local variables of the calls in progress, by frame

codec_vars == <<skymap, method, compression_ratio, pc, compressed, compressed_data,
                decompressed, raised, warned, calls, log>>

config_vars == <<heap, configs, _global_config, ops>>

map_vars == <<buffers, maps, map_ops>>

thread_vars == <<threads, frames>>

\* What no function of compression.py reads or writes when one thread calls.
outside_codec == <<config_vars, map_vars, thread_vars>>

\* What no function of config.py reads or writes.
outside_config == <<codec_vars, map_vars, thread_vars>>

\* What no method of SkyMap reads or writes.
outside_skymap == <<codec_vars, config_vars, thread_vars>>

\* What the calls of concurrent threads leave alone.
outside_threads == <<codec_vars, config_vars, map_vars>>

vars == <<codec_vars, outside_codec>>

-----------------------------------------------------------------------------
(* Bounds of the model *)

MaxLen == 4

Vals == {-2, 0, 1}

RatioNums == {-1, 0, 1, 4, 5, 9, 10, 11}

Ratios == {<<n, 10>> : n \in RatioNums}

MethodNames == {"wavelet", "pca", "svd", "bogus"}

-----------------------------------------------------------------------------
(* Python / numpy values *)

None == [type |-> "None"]

Max(a, b) == IF a >= b THEN a ELSE b

Abs(x) == IF x < 0 THEN -x ELSE x

RECURSIVE Size(_)
Size(shape) ==
    IF shape = <<>> THEN 1 ELSE Head(shape) * Size(Tail(shape))

RECURSIVE IndexSet(_)
IndexSet(shape) ==
    IF shape = <<>> THEN {<<>>}
    ELSE {<<i>> \o rest : i \in 0 .. (Head(shape) - 1), rest \in IndexSet(Tail(shape))}

RECURSIVE RavelIndex(_, _)
RavelIndex(idx, shape) ==
    IF shape = <<>> THEN 0
    ELSE Head(idx) * Size(Tail(shape)) + RavelIndex(Tail(idx), Tail(shape))

RECURSIVE UnravelIndex(_, _)
UnravelIndex(k, shape) ==
    IF shape = <<>> THEN <<>>
    ELSE <<k \div Size(Tail(shape))>>
            \o UnravelIndex(k % Size(Tail(shape)), Tail(shape))

ndarray(shape, elems) == [type |-> "ndarray", shape |-> shape, elems |-> elems]

Shapes ==
    {<<>>} \cup {<<n>> : n \in 0 .. MaxLen}
           \cup {<<r, c>> : r \in 0 .. MaxLen, c \in 1 .. MaxLen}

Arrays ==
    UNION {{ndarray(s, e) : e \in [IndexSet(s) -> Vals]} :
              s \in {t \in Shapes : Size(t) <= MaxLen}}

ExampleArray ==
    ndarray(<<5>>, [idx \in IndexSet(<<5>>) |-> <<5, -1, 3, 0, 2>>[idx[1] + 1]])

\* Elements of equal magnitude and opposite sign.
ExampleTies ==
    ndarray(<<4>>, [idx \in IndexSet(<<4>>) |-> <<1, -1, -1, 1>>[idx[1] + 1]])

\* A non-square 2-D array of six distinct magnitudes.
Example2D ==
    ndarray(<<2, 3>>,
            [idx \in IndexSet(<<2, 3>>) |-> <<<<1, -6, 3>>, <<-4, 5, -2>>>>[idx[1] + 1][idx[2] + 1]])

PlainList == [type |-> "list", items |-> <<1, 2, 3>>]

Inputs == Arrays \cup {ExampleArray, ExampleTies, Example2D, PlainList}

-----------------------------------------------------------------------------
(* numpy operations used by the codec *)

\* skymap.flatten(): a 1-D copy in row-major order (a sequence, position k+1
\* holding flat index k).
flatten(a) ==
    [k \in 1 .. Size(a.shape) |-> a.elems[UnravelIndex(k - 1, a.shape)]]

\* flat_map.reshape(shape): the row-major array over a flat buffer.
reshape(flat, shape) ==
    ndarray(shape, [idx \in IndexSet(shape) |-> flat[RavelIndex(idx, shape) + 1]])

np_abs(flat) == [k \in 1 .. Len(flat) |-> Abs(flat[k])]

\* np.argsort(keys) with the default kind ("quicksort", not a stable sort):
\* any permutation of the flat indices 0..N-1 that puts the keys in
\* ascending order; the order among equal keys is up to the numpy build.
RECURSIVE SortedOrders(_, _)
SortedOrders(S, keys) ==
    IF S = {} THEN {<<>>}
    ELSE UNION {{<<i>> \o rest : rest \in SortedOrders(S \ {i}, keys)} :
                   i \in {m \in S : \A j \in S : keys[m + 1] <= keys[j + 1]}}

argsort(keys) == SortedOrders(0 .. (Len(keys) - 1), keys)

\* seq[-n:] : the last n items; all of seq when n = 0 or n >= len(seq).
TakeLast(seq, n) ==
    IF n = 0 \/ n >= Len(seq) THEN seq
    ELSE SubSeq(seq, Len(seq) - n + 1, Len(seq))

\* flat_map[indices] : the values found at the given flat indices.
take(flat, indices) == [k \in 1 .. Len(indices) |-> flat[indices[k] + 1]]

\* int(x) for x = num/den with den > 0: truncation toward zero.
IntTrunc(num, den) ==
    IF num >= 0 THEN num \div den ELSE -((-num) \div den)

\* np.prod(shape): an int64 for a non-empty tuple of ints, the float64 1.0
\* for the empty tuple (the shape of a 0-d array).
np_prod(shape) ==
    IF shape = <<>> THEN [dtype |-> "float64", val |-> 1]
    ELSE [dtype |-> "int64", val |-> Size(shape)]

\* Mutant of np_zeros: the buffer of the previous reconstruction is reused
\* without clearing it when it has the right size.
np_zeros_Reused(n) ==
    IF decompressed.type = "ndarray" /\ Size(decompressed.shape) = n
    THEN flatten(decompressed)
    ELSE [k \in 1 .. n |-> 0]

np_zeros(n) == [k \in 1 .. n |-> 0]

\* A flat index as numpy resolves it in a buffer of n items (negative
\* indices count from the end).
Wrap(i, n) == IF i < 0 THEN i + n ELSE i

RECURSIVE Scatter(_, _, _, _)
Scatter(flat, indices, values, k) ==
    IF k > Len(indices) THEN flat
    ELSE Scatter([flat EXCEPT ![Wrap(indices[k], Len(flat)) + 1] =
                      IF Len(values) = 1 THEN values[1] ELSE values[k]],
                 indices, values, k + 1)

ItemSize == 8

IndexItemSize == 8

\* Mutant of nbytes: the element count in place of the byte count.
nbytes_Count(n, itemsize) == n

\* ndarray.nbytes of an array of n items of itemsize bytes each
nbytes(n, itemsize) == n * itemsize

-----------------------------------------------------------------------------
(* compress_skymap and the per-method compressors *)

CompressionError(msg, func) ==
    [type |-> "CompressionError", msg |-> msg, func |-> func]

OtherError(type, func) == [type |-> type, msg |-> "", func |-> func]

\* Mutant of isinstance_ndarray: any sequence of numbers is let through.
isinstance_ndarray_ArrayLike(x) == x.type \in {"ndarray", "list"}

isinstance_ndarray(x) == x.type = "ndarray"

\* Mutant of RatioInRange: the end points 0 and 1 are let through.
RatioInRange_Inclusive(r) == 0 <= r[1] /\ r[1] <= r[2]

\* 0 < compression_ratio < 1
RatioInRange(r) == 0 < r[1] /\ r[1] < r[2]

\* Mutant of CompressDispatch: a name that matches no branch falls through
\* to the "wavelet" compressor.
CompressDispatch_Fallback(m) ==
    CASE m = "pca" -> "_compress_pca"
      [] m = "svd" -> "_compress_svd"
      [] OTHER     -> "_compress_wavelet"

\* The if/elif chain of compress_skymap: the function the call goes to, or
\* "raise" for a name that matches no branch.
CompressDispatch(m) ==
    CASE m = "wavelet" -> "_compress_wavelet"
      [] m = "pca"     -> "_compress_pca"
      [] m = "svd"     -> "_compress_svd"
      [] OTHER         -> "raise"

\* Mutant of NKeep: the max(1, ...) floor is left out.
NKeep_NoMinimum(n, r) == IntTrunc(n * r[1], r[2])

\* n_keep = max(1, int(len(flat_map) * compression_ratio))
NKeep(n, r) == Max(1, IntTrunc(n * r[1], r[2]))

\* Mutant of SelectIndices: the slice [:n_keep] in place of [-n_keep:].
SelectIndices_Head(order, n_keep) ==
    SubSeq(order, 1, IF n_keep < Len(order) THEN n_keep ELSE Len(order))

\* indices = np.argsort(np.abs(flat_map))[-n_keep:], for one sort order
SelectIndices(order, n_keep) == TakeLast(order, n_keep)

\* The dictionary _compress_wavelet builds for one outcome of the sort.
WaveletDict(a, r, order) ==
    LET flat_map == flatten(a)
        n_keep   == NKeep(Len(flat_map), r)
        indices  == SelectIndices(order, n_keep)
        values   == take(flat_map, indices)
    IN  [type              |-> "dict",
         method            |-> "wavelet",
         shape             |-> a.shape,
         indices           |-> indices,
         values            |-> values,
         compression_ratio |-> r,
         original_size     |-> nbytes(Size(a.shape), ItemSize),
         compressed_size   |-> nbytes(Len(indices), IndexItemSize)
                                   + nbytes(Len(values), ItemSize)]

compress_skymap ==
    /\ pc = "compress_skymap"
    /\ calls' = Append(calls, "compress_skymap")
    /\ IF ~isinstance_ndarray(skymap)
       THEN /\ raised' = CompressionError("Input must be a numpy array", "compress_skymap")
            /\ pc' = "raised"
       ELSE IF ~RatioInRange(compression_ratio)
       THEN /\ raised' = CompressionError("Compression ratio must be between 0 and 1",
                                          "compress_skymap")
            /\ pc' = "raised"
       ELSE IF CompressDispatch(method) = "raise"
       THEN /\ raised' = CompressionError("Unknown compression method", "compress_skymap")
            /\ pc' = "raised"
       ELSE /\ pc' = CompressDispatch(method)
            /\ UNCHANGED raised
    /\ UNCHANGED <<skymap, method, compression_ratio, compressed, compressed_data,
                   decompressed, warned, log>>
    /\ UNCHANGED outside_codec

_compress_wavelet ==
    /\ pc = "_compress_wavelet"
    /\ calls' = Append(calls, "_compress_wavelet")
    /\ \E order \in argsort(np_abs(flatten(skymap))) :
           compressed' = WaveletDict(skymap, compression_ratio, order)
    /\ pc' = "compressed"
    /\ UNCHANGED <<skymap, method, compression_ratio, compressed_data, decompressed,
                   raised, warned, log>>
    /\ UNCHANGED outside_codec

_compress_pca ==
    /\ pc = "_compress_pca"
    /\ calls' = Append(calls, "_compress_pca")
    /\ warned' = Append(warned, "PCA compression is not yet fully implemented")
    /\ pc' = "_compress_wavelet"
    /\ UNCHANGED <<skymap, method, compression_ratio, compressed, compressed_data,
                   decompressed, raised, log>>
    /\ UNCHANGED outside_codec

_compress_svd ==
    /\ pc = "_compress_svd"
    /\ calls' = Append(calls, "_compress_svd")
    /\ warned' = Append(warned, "SVD compression is not yet fully implemented")
    /\ pc' = "_compress_wavelet"
    /\ UNCHANGED <<skymap, method, compression_ratio, compressed, compressed_data,
                   decompressed, raised, log>>
    /\ UNCHANGED outside_codec

-----------------------------------------------------------------------------
(* decompress_skymap and the per-method decompressors *)

PyNone == "<None>"

\* A record of one ended call of a public function.
Ended(func, arg, out) == [func |-> func, arg |-> arg, out |-> out]

\* Mutant of isinstance_dict: once a call has failed, every later argument is
\* refused.
isinstance_dict_AfterFailure(x) == x.type = "dict" /\ raised = None

isinstance_dict(x) == x.type = "dict"

\* compressed_data.get("method")
GetMethod(d) == IF "method" \in DOMAIN d THEN d.method ELSE PyNone

\* Mutant of DecompressDispatch: a name outside the chain is treated as the
\* default method.
DecompressDispatch_Fallback(m) ==
    CASE m = "pca"     -> "_decompress_pca"
      [] m = "svd"     -> "_decompress_svd"
      [] OTHER         -> "_decompress_wavelet"

\* The if/elif chain of decompress_skymap.
DecompressDispatch(m) ==
    CASE m = "wavelet" -> "_decompress_wavelet"
      [] m = "pca"     -> "_decompress_pca"
      [] m = "svd"     -> "_decompress_svd"
      [] OTHER         -> "raise"

\* What the body of _decompress_wavelet does with a dictionary: the array it
\* returns, or the exception numpy raises on the way. The assignment
\* flat_map[indices] = values checks the index items against the buffer
\* (IndexError) and the values against the index array's length (ValueError);
\* which check comes first when both fail depends on the assignment path
\* numpy takes, so both exceptions are possible then.
DecompressWavelet(d) ==
    LET shape    == d.shape
        indices  == d.indices
        values   == d.values
        n        == np_prod(shape)
        badIndex == \E k \in 1 .. Len(indices) : indices[k] >= n.val \/ indices[k] < -n.val
        badLen   == Len(values) # Len(indices) /\ Len(values) # 1
    IN  IF n.dtype # "int64"
        THEN {OtherError("TypeError", "_decompress_wavelet")}
        ELSE IF badIndex \/ badLen
        THEN {OtherError(e, "_decompress_wavelet") :
                 e \in {x \in {"IndexError"} : badIndex} \cup {x \in {"ValueError"} : badLen}}
        ELSE {reshape(Scatter(np_zeros(n.val), indices, values, 1), shape)}

decompress_skymap ==
    /\ pc = "decompress_skymap"
    /\ calls' = Append(calls, "decompress_skymap")
    /\ IF ~isinstance_dict(compressed_data)
       THEN /\ raised' = CompressionError("Compressed data must be a dictionary",
                                          "decompress_skymap")
            /\ pc' = "raised"
       ELSE IF GetMethod(compressed_data) = PyNone
       THEN /\ raised' = CompressionError("Compression method not found in data",
                                          "decompress_skymap")
            /\ pc' = "raised"
       ELSE IF DecompressDispatch(GetMethod(compressed_data)) = "raise"
       THEN /\ raised' = CompressionError("Unknown compression method", "decompress_skymap")
            /\ pc' = "raised"
       ELSE /\ pc' = DecompressDispatch(GetMethod(compressed_data))
            /\ UNCHANGED raised
    /\ log' = IF pc' = "raised"
              THEN Append(log, Ended("decompress_skymap", compressed_data, raised'))
              ELSE log
    /\ UNCHANGED <<skymap, method, compression_ratio, compressed, compressed_data,
                   decompressed, warned>>
    /\ UNCHANGED outside_codec

_decompress_wavelet ==
    /\ pc = "_decompress_wavelet"
    /\ calls' = IF np_prod(compressed_data.shape).dtype = "int64"
                THEN calls \o <<"_decompress_wavelet", "np.zeros">>
                ELSE Append(calls, "_decompress_wavelet")
    /\ \E out \in DecompressWavelet(compressed_data) :
           /\ IF out.type = "ndarray"
              THEN /\ decompressed' = out
                   /\ pc' = "decompressed"
                   /\ UNCHANGED raised
              ELSE /\ raised' = out
                   /\ pc' = "raised"
                   /\ UNCHANGED decompressed
           /\ log' = Append(log, Ended("decompress_skymap", compressed_data, out))
    /\ UNCHANGED <<skymap, method, compression_ratio, compressed, compressed_data, warned>>
    /\ UNCHANGED outside_codec

_decompress_pca ==
    /\ pc = "_decompress_pca"
    /\ calls' = Append(calls, "_decompress_pca")
    /\ warned' = Append(warned, "PCA decompression is not yet fully implemented")
    /\ pc' = "_decompress_wavelet"
    /\ UNCHANGED <<skymap, method, compression_ratio, compressed, compressed_data,
                   decompressed, raised, log>>
    /\ UNCHANGED outside_codec

_decompress_svd ==
    /\ pc = "_decompress_svd"
    /\ calls' = Append(calls, "_decompress_svd")
    /\ warned' = Append(warned, "SVD decompression is not yet fully implemented")
    /\ pc' = "_decompress_wavelet"
    /\ UNCHANGED <<skymap, method, compression_ratio, compressed, compressed_data,
                   decompressed, raised, log>>
    /\ UNCHANGED outside_codec

-----------------------------------------------------------------------------
(* get_compression_info *)

MaxInfoCalls == 2

\* compressed_data.get(key, default)
DictGet(d, key, default) == IF key \in DOMAIN d THEN d[key] ELSE default

\* The get_compression_info calls that have ended.
InfoCalls == {k \in 1 .. Len(log) : log[k].func = "get_compression_info"}

\* Mutant of InfoOf: the sizes are added to running totals kept across calls.
InfoOf_RunningTotal(d) ==
    LET seen            == Cardinality(InfoCalls) + 1
        original_size   == DictGet(d, "original_size", 0) * seen
        compressed_size == DictGet(d, "compressed_size", 0)
        ratio           == IF original_size > 0
                           THEN <<compressed_size, original_size>>
                           ELSE <<0, 1>>
    IN  [method               |-> DictGet(d, "method", "unknown"),
         original_size_bytes   |-> original_size,
         compressed_size_bytes |-> compressed_size,
         compression_ratio     |-> ratio,
         space_saved_percent   |-> <<(ratio[2] - ratio[1]) * 100, ratio[2]>>,
         shape                 |-> DictGet(d, "shape", PyNone)]

\* The mapping get_compression_info returns. A quotient is the exact fraction
\* <<num, den>>; the ratio 0 of an empty original is <<0, 1>>.
InfoOf(d) ==
    LET original_size   == DictGet(d, "original_size", 0)
        compressed_size == DictGet(d, "compressed_size", 0)
        ratio           == IF original_size > 0
                           THEN <<compressed_size, original_size>>
                           ELSE <<0, 1>>
    IN  [method               |-> DictGet(d, "method", "unknown"),
         original_size_bytes   |-> original_size,
         compressed_size_bytes |-> compressed_size,
         compression_ratio     |-> ratio,
         space_saved_percent   |-> <<(ratio[2] - ratio[1]) * 100, ratio[2]>>,
         shape                 |-> DictGet(d, "shape", PyNone)]

\* basic_usage.main calls get_compression_info on what compress_skymap
\* returned, before or after decompressing it.
get_compression_info ==
    /\ pc \in {"compressed", "decompressed", "raised"}
    /\ compressed # None
    /\ Cardinality(InfoCalls) < MaxInfoCalls
    /\ calls' = Append(calls, "get_compression_info")
    /\ log' = Append(log, Ended("get_compression_info", compressed, InfoOf(compressed)))
    /\ UNCHANGED <<skymap, method, compression_ratio, pc, compressed, compressed_data,
                   decompressed, raised, warned>>
    /\ UNCHANGED outside_codec

-----------------------------------------------------------------------------
(* The callers *)

\* Whether a numpy operation returns a view of its operand's memory:
\* ndarray.flatten and indexing with an index array return copies; ravel (of
\* a contiguous array) and basic slices return views.
IsView(op) == op \in {"ravel", "basic_slice"}

\* Mutant of ValuesChain: the values taken as skymap.ravel()[-n_keep:].
ValuesChain_Views == <<"ravel", "basic_slice">>

\* The operations that lead from the input to the returned values:
\* skymap.flatten()[indices].
ValuesChain == <<"flatten", "advanced_index">>

\* The returned values array shares memory with the input array.
ValuesAliasInput == \A k \in 1 .. Len(ValuesChain) : IsView(ValuesChain[k])

\* A caller assigns to one item of the values array of the dictionary it got
\* from compress_skymap; the write reaches the input array exactly if the two
\* share memory.
caller_write_values ==
    /\ pc = "compressed"
    /\ \E k \in 1 .. Len(compressed.values) : \E v \in Vals :
           /\ v # compressed.values[k]
           /\ compressed' = [compressed EXCEPT !.values[k] = v]
           /\ skymap' = IF ValuesAliasInput
                        THEN [skymap EXCEPT
                                 !.elems[UnravelIndex(compressed.indices[k], skymap.shape)] = v]
                        ELSE skymap
    /\ pc' = "written"
    /\ UNCHANGED <<method, compression_ratio, compressed_data, decompressed, raised,
                   warned, calls, log>>
    /\ UNCHANGED outside_codec

\* basic_usage.main: decompress_skymap on what compress_skymap returned.
main_decompress ==
    /\ pc = "compressed"
    /\ compressed_data' = compressed
    /\ pc' = "decompress_skymap"
    /\ UNCHANGED <<skymap, method, compression_ratio, compressed, decompressed,
                   raised, warned, calls, log>>
    /\ UNCHANGED outside_codec

\* cli.cmd_decompress: decompress_skymap on a dictionary unpickled from a
\* file, whose method entry is whatever the file's writer put there.
cmd_decompress ==
    /\ pc = "compressed"
    /\ \E tag \in MethodNames \ {"wavelet"} :
           compressed_data' = [compressed EXCEPT !.method = tag]
    /\ pc' = "decompress_skymap"
    /\ UNCHANGED <<skymap, method, compression_ratio, compressed, decompressed,
                   raised, warned, calls, log>>
    /\ UNCHANGED outside_codec

\* The length bound of the indices and values sequences of a file's dictionary.
MaxFileLen == 2

FileShapes == {<<2>>, <<2, 2>>}

\* Index items of a file's dictionary: below -N, wrapping, in range and at or
\* beyond N for the shapes above.
FileIndexVals == {-5, -1, 0, 1, 3, 4}

SeqsUpTo(S, n) == UNION {[1 .. k -> S] : k \in 0 .. n}

\* The dictionaries a pickle file may hold: the keys _compress_wavelet writes,
\* with any method name, shape, index items and value items.
FileDicts ==
    {[type |-> "dict", method |-> m, shape |-> sh, indices |-> ind, values |-> val,
      original_size |-> nbytes(Size(sh), ItemSize),
      compressed_size |-> nbytes(Len(ind), IndexItemSize) + nbytes(Len(val), ItemSize)] :
        m \in MethodNames, sh \in FileShapes,
        ind \in SeqsUpTo(FileIndexVals, MaxFileLen), val \in SeqsUpTo(Vals, MaxFileLen)}

\* What else a pickle file may hold: objects that are no dictionary, and
\* dictionaries without a method entry (absent or None) or with an unknown
\* one, with or without the other entries.
BadFiles ==
    {PlainList, ExampleArray, None,
     [type |-> "dict"],
     [type |-> "dict", shape |-> <<2>>, indices |-> <<0>>, values |-> <<1>>],
     [type |-> "dict", method |-> PyNone, shape |-> <<2>>, indices |-> <<0>>,
      values |-> <<1>>],
     [type |-> "dict", method |-> "bogus"]}

FileObjects == FileDicts \cup BadFiles

\* cli.cmd_decompress on any file: pickle.load, then decompress_skymap.
cmd_decompress_file ==
    /\ pc = "cmd_decompress"
    /\ compressed_data' \in FileObjects
    /\ pc' = "decompress_skymap"
    /\ UNCHANGED <<skymap, method, compression_ratio, compressed, decompressed,
                   raised, warned, calls, log>>
    /\ UNCHANGED outside_codec

\* The decompress_skymap calls that have ended.
DecompressCalls == {k \in 1 .. Len(log) : log[k].func = "decompress_skymap"}

\* The number of compress_skymap and decompress_skymap calls of one process.
MaxCalls == 3

PublicCalls == {k \in 1 .. Len(calls) : calls[k] \in {"compress_skymap", "decompress_skymap"}}

\* The dictionaries of a process that calls decompress_skymap repeatedly.
SessionDicts ==
    {d \in FileDicts : /\ d.shape = <<2>>
                       /\ d.method \in {"wavelet", "bogus"}
                       /\ Len(d.indices) = 1 /\ d.indices[1] \in {0, 1, 3}
                       /\ Len(d.values) = 1 /\ d.values[1] # 0}

\* The arrays such a process compresses.
SessionInputs == {a \in Arrays : a.shape = <<2>> /\ a.elems[<<0>>] = 1}

\* One process calling the codec again and again (the loop of
\* basic_usage.main, the test suite): the next call is a decompress_skymap
\* on a dictionary equal to or different from the earlier ones ...
next_decompress ==
    /\ pc \in {"cmd_decompress", "compressed", "decompressed", "raised"}
    /\ Cardinality(PublicCalls) < MaxCalls
    /\ compressed_data' \in SessionDicts
    /\ pc' = "decompress_skymap"
    /\ UNCHANGED <<skymap, method, compression_ratio, compressed, decompressed,
                   raised, warned, calls, log>>
    /\ UNCHANGED outside_codec

\* ... or a compress_skymap.
next_compress ==
    /\ pc \in {"cmd_decompress", "compressed", "decompressed", "raised"}
    /\ Cardinality(PublicCalls) < MaxCalls
    /\ skymap' \in SessionInputs
    /\ method' = "wavelet"
    /\ compression_ratio' \in {<<5, 10>>, <<10, 10>>}
    /\ pc' = "compress_skymap"
    /\ UNCHANGED <<compressed, compressed_data, decompressed, raised, warned, calls, log>>
    /\ UNCHANGED outside_codec

\* A caller applies compress_skymap, with the same method name and ratio, to
\* the array the round trip returned.
recompress ==
    /\ pc = "decompressed"
    /\ compressed_data = compressed
    /\ Cardinality(DecompressCalls) = 1
    /\ skymap' = decompressed
    /\ compressed_data' = None
    /\ decompressed' = None
    /\ pc' = "compress_skymap"
    /\ UNCHANGED <<method, compression_ratio, compressed, raised, warned, calls, log>>
    /\ UNCHANGED outside_codec

-----------------------------------------------------------------------------
(* config.py: the configuration store *)

\* A dict object: its entries that are no dict (leaf, shown as strings) and
\* its entries that are dicts (sub, the identity of the dict). A key is in at
\* most one of the two.
Dict(leaf, sub) == [leaf |-> leaf, sub |-> sub]

EmptyMap == [k \in {} |-> ""]

EmptyDict == Dict(EmptyMap, EmptyMap)

DictKeys(d) == DOMAIN d.leaf \cup DOMAIN d.sub

Without(f, k) == [x \in DOMAIN f \ {k} |-> f[x]]

\* d[k] = v for a value that is no dict, and for the dict with identity id.
Put(d, k, v) == Dict((k :> v) @@ d.leaf, Without(d.sub, k))

PutSub(d, k, id) == Dict(Without(d.leaf, k), (k :> id) @@ d.sub)

\* The identity of the module-level dict DEFAULT_CONFIG.
DEFAULT_CONFIG == 1

\* The objects the literal DEFAULT_CONFIG creates: the outer dict and the
\* five section dicts.
DefaultHeap ==
    << Dict(EmptyMap, [k \in {"compression", "skymap", "io", "utils", "logging"} |->
                          CASE k = "compression" -> 2
                            [] k = "skymap"      -> 3
                            [] k = "io"          -> 4
                            [] k = "utils"       -> 5
                            [] k = "logging"     -> 6]),
       Dict([k \in {"default_method", "default_ratio", "allowed_methods", "max_ratio",
                    "min_ratio"} |->
                 CASE k = "default_method"  -> "wavelet"
                   [] k = "default_ratio"   -> "0.1"
                   [] k = "allowed_methods" -> "['wavelet', 'pca', 'svd']"
                   [] k = "max_ratio"       -> "0.9"
                   [] k = "min_ratio"       -> "0.001"], EmptyMap),
       Dict([k \in {"default_nside", "default_coordinate_system", "default_units",
                    "max_nside", "valid_coordinate_systems"} |->
                 CASE k = "default_nside"             -> "64"
                   [] k = "default_coordinate_system" -> "galactic"
                   [] k = "default_units"             -> "unknown"
                   [] k = "max_nside"                 -> "8192"
                   [] k = "valid_coordinate_systems"  ->
                          "['galactic', 'equatorial', 'ecliptic']"], EmptyMap),
       Dict([k \in {"default_format", "supported_formats", "default_overwrite",
                    "max_file_size_mb"} |->
                 CASE k = "default_format"    -> "fits"
                   [] k = "supported_formats" ->
                          "['fits', 'healpix', 'numpy', 'numpy_compressed']"
                   [] k = "default_overwrite" -> "False"
                   [] k = "max_file_size_mb"  -> "1000"], EmptyMap),
       Dict([k \in {"default_angle_units", "default_beam_type", "cmb_temperature"} |->
                 CASE k = "default_angle_units" -> "radians"
                   [] k = "default_beam_type"   -> "gaussian"
                   [] k = "cmb_temperature"     -> "2.7255"], EmptyMap),
       Dict([k \in {"level", "format"} |->
                 CASE k = "level"  -> "INFO"
                   [] k = "format" ->
                          "%(asctime)s - %(name)s - %(levelname)s - %(message)s"],
            EmptyMap) >>

\* dict.copy(): a new dict with the same entries; an entry that is a dict is
\* the same dict object in the copy.
ShallowCopy(d) == d

\* The value of a dict object with the dicts below it, identities left out.
RECURSIVE Deep(_, _)
Deep(h, id) ==
    [leaf |-> h[id].leaf,
     sub  |-> [k \in DOMAIN h[id].sub |-> Deep(h, h[id].sub[k])]]

\* What Python code gets for an entry: a value that is no dict, or a dict.
Value(v) == [value |-> v]

DictValue(h, id) == [dict |-> Deep(h, id)]

\* Config.get from component k of the split key on: value = value[k] for each
\* component; KeyError (no such entry) and TypeError (the value reached is no
\* dict) give the default.
RECURSIVE GetPath(_, _, _, _, _)
GetPath(h, id, keys, k, default) ==
    LET d == h[id]
    IN  IF keys[k] \in DOMAIN d.sub
        THEN IF k = Len(keys) THEN DictValue(h, d.sub[keys[k]])
             ELSE GetPath(h, d.sub[keys[k]], keys, k + 1, default)
        ELSE IF keys[k] \in DOMAIN d.leaf /\ k = Len(keys)
        THEN Value(d.leaf[keys[k]])
        ELSE default

\* Config.get(key, default) on the Config object c; keys is key.split('.').
Config_get(c, keys, default) == GetPath(heap, configs[c], keys, 1, default)

\* get_config_value(key, default)
get_config_value(keys, default) == Config_get(_global_config, keys, default)

\* Mutant of SetPath: the value is stored in the outer dict under the last
\* component, whatever the path.
SetPath_TopLevel(h, id, keys, k, value) ==
    [heap |-> [h EXCEPT ![id] = Put(@, keys[Len(keys)], value)], raised |-> PyNone]

\* Config.set from component k of the split key on: walk to the parent dict,
\* creating an empty dict for every absent component, and store the value
\* under the last component. A component that is present and no dict ends
\* the call with TypeError (the object reached supports no item assignment).
RECURSIVE SetPath(_, _, _, _, _)
SetPath(h, id, keys, k, value) ==
    IF k = Len(keys)
    THEN [heap |-> [h EXCEPT ![id] = Put(@, keys[k], value)], raised |-> PyNone]
    ELSE IF keys[k] \in DOMAIN h[id].sub
    THEN SetPath(h, h[id].sub[keys[k]], keys, k + 1, value)
    ELSE IF keys[k] \in DOMAIN h[id].leaf
    THEN [heap |-> h, raised |-> "TypeError"]
    ELSE SetPath(Append([h EXCEPT ![id] = PutSub(@, keys[k], Len(h) + 1)], EmptyDict),
                 Len(h) + 1, keys, k + 1, value)

\* The objects a dict literal creates (a caller's argument), inner dicts first.
RECURSIVE Alloc(_, _), AllocSubs(_, _, _, _)
Alloc(h, tree) ==
    LET r == AllocSubs(h, tree, DOMAIN tree.sub, EmptyMap)
    IN  [heap |-> Append(r.heap, Dict(tree.leaf, r.ids)), id |-> Len(r.heap) + 1]

AllocSubs(h, tree, todo, ids) ==
    IF todo = {} THEN [heap |-> h, ids |-> ids]
    ELSE LET k == CHOOSE x \in todo : TRUE
             a == Alloc(h, tree.sub[k])
         IN  AllocSubs(a.heap, tree, todo \ {k}, (k :> a.id) @@ ids)

\* Config._merge_configs(base, update): a shallow copy of base in which every
\* key of update is merged recursively when both sides hold a dict, and
\* otherwise bound to update's value (a dict of update by identity).
RECURSIVE _merge_configs(_, _, _), MergeItems(_, _, _, _)
_merge_configs(h, base, update) ==
    [heap |-> MergeItems(Append(h, ShallowCopy(h[base])), Len(h) + 1, update,
                         DictKeys(h[update])),
     id   |-> Len(h) + 1]

MergeItems(h, result, update, todo) ==
    IF todo = {} THEN h
    ELSE LET key == CHOOSE x \in todo : TRUE
             u   == h[update]
         IN  IF key \in DOMAIN u.sub /\ key \in DOMAIN h[result].sub
             THEN LET m == _merge_configs(h, h[result].sub[key], u.sub[key])
                  IN  MergeItems([m.heap EXCEPT ![result] = PutSub(@, key, m.id)],
                                 result, update, todo \ {key})
             ELSE IF key \in DOMAIN u.sub
             THEN MergeItems([h EXCEPT ![result] = PutSub(@, key, u.sub[key])],
                             result, update, todo \ {key})
             ELSE MergeItems([h EXCEPT ![result] = Put(@, key, u.leaf[key])],
                             result, update, todo \ {key})

\* The number of configuration calls of one process.
MaxOps == 3

\* The split keys the callers set, and the values.
SetKeys == {<<"compression", "default_ratio">>, <<"new">>, <<"new", "sub">>}

SetVals == {"0.5"}

\* The dict literals the callers pass to Config(...) and Config.update.
UpdateDicts ==
    {Dict(EmptyMap, "compression" :> Dict("default_ratio" :> "0.9", EmptyMap)),
     Dict("new" :> "u", EmptyMap)}

\* A record of one ended configuration call.
ConfigOp(op, c, keys, value, err) ==
    [op |-> op, c |-> c, keys |-> keys, value |-> value, raised |-> err]

\* Config.__init__: Config() and Config(config_dict).
Config_init ==
    /\ Len(ops) < MaxOps
    /\ \/ /\ heap' = Append(heap, ShallowCopy(heap[DEFAULT_CONFIG]))
          /\ configs' = Append(configs, Len(heap) + 1)
          /\ ops' = Append(ops, ConfigOp("Config()", Len(configs) + 1, <<>>, "", PyNone))
       \/ \E d \in UpdateDicts :
              LET a == Alloc(heap, d)
                  m == _merge_configs(a.heap, DEFAULT_CONFIG, a.id)
              IN  /\ heap' = m.heap
                  /\ configs' = Append(configs, m.id)
                  /\ ops' = Append(ops, ConfigOp("Config(config_dict)", Len(configs) + 1,
                                                 <<>>, "", PyNone))
    /\ UNCHANGED <<_global_config, outside_config>>

\* Config.set on any Config object of the process.
Config_set ==
    /\ Len(ops) < MaxOps
    /\ \E c \in 1 .. Len(configs) : \E keys \in SetKeys : \E value \in SetVals :
           LET r == SetPath(heap, configs[c], keys, 1, value)
           IN  /\ heap' = r.heap
               /\ ops' = Append(ops, ConfigOp("Config.set", c, keys, value, r.raised))
    /\ UNCHANGED <<configs, _global_config, outside_config>>

\* Config.update on any Config object of the process.
Config_update ==
    /\ Len(ops) < MaxOps
    /\ \E c \in 1 .. Len(configs) : \E d \in UpdateDicts :
           LET a == Alloc(heap, d)
               m == _merge_configs(a.heap, configs[c], a.id)
           IN  /\ heap' = m.heap
               /\ configs' = [configs EXCEPT ![c] = m.id]
               /\ ops' = Append(ops, ConfigOp("Config.update", c, <<>>, "", PyNone))
    /\ UNCHANGED <<_global_config, outside_config>>

set_config_value ==
    /\ Len(ops) < MaxOps
    /\ \E keys \in SetKeys : \E value \in SetVals :
           LET r == SetPath(heap, configs[_global_config], keys, 1, value)
           IN  /\ heap' = r.heap
               /\ ops' = Append(ops, ConfigOp("set_config_value", _global_config, keys,
                                              value, r.raised))
    /\ UNCHANGED <<configs, _global_config, outside_config>>

reset_config ==
    /\ Len(ops) < MaxOps
    /\ heap' = Append(heap, ShallowCopy(heap[DEFAULT_CONFIG]))
    /\ configs' = Append(configs, Len(heap) + 1)
    /\ _global_config' = Len(configs) + 1
    /\ ops' = Append(ops, ConfigOp("reset_config", Len(configs) + 1, <<>>, "", PyNone))
    /\ UNCHANGED outside_config

\* The state after the package is imported: DEFAULT_CONFIG and the global
\* Config() that config.py creates (no user configuration file is found).
ConfigInit ==
    /\ heap = Append(DefaultHeap, ShallowCopy(DefaultHeap[DEFAULT_CONFIG]))
    /\ configs = <<Len(DefaultHeap) + 1>>
    /\ _global_config = 1
    /\ ops = <<>>

-----------------------------------------------------------------------------
(* skymap.py: the SkyMap class *)

\* An array over a memory block: element idx is item
\* offset + step * (row-major position of idx) of the block. A new array has
\* offset 0 and step 1; a slice data[::factor] of a 1-D array is an array
\* over the same block with the step multiplied.
View(buf, offset, step, shape) ==
    [buf |-> buf, offset |-> offset, step |-> step, shape |-> shape]

Pos(v, idx) == v.offset + v.step * RavelIndex(idx, v.shape) + 1

\* The elements of an array, by index.
Pixels(bufs, v) == [idx \in IndexSet(v.shape) |-> bufs[v.buf][Pos(v, idx)]]

\* The block of a new contiguous array with the given elements.
NewBlock(shape, elems) ==
    [k \in 1 .. (IF IndexSet(shape) = {} THEN 0 ELSE Size(shape)) |->
        elems[UnravelIndex(k - 1, shape)]]

RECURSIVE SumSeq(_, _)
SumSeq(seq, k) == IF k > Len(seq) THEN 0 ELSE seq[k] + SumSeq(seq, k + 1)

\* The mean of a block of pixels (the values of the model make it exact).
Mean(seq) == SumSeq(seq, 1) \div Len(seq)

\* data[:new_h*factor, :new_w*factor].reshape(new_h, factor, new_w, factor)
\*     .mean(axis=(1, 3)) : the elements of the block-averaged array.
BlockMeans(pix, shape, factor) ==
    [idx \in IndexSet(<<shape[1] \div factor, shape[2] \div factor>>) |->
        Mean([k \in 1 .. factor * factor |->
                 pix[<<idx[1] * factor + (k - 1) \div factor,
                       idx[2] * factor + ((k - 1) % factor)>>]])]

\* The factor arguments of downgrade.
Factors == {1, 2, 3}

\* The arrays the callers build maps from: pixel values are multiples of 4.
MapData ==
    {ndarray(<<3>>, [idx \in IndexSet(<<3>>) |-> <<4, 8, 0>>[idx[1] + 1]]),
     ndarray(<<2, 2>>, [idx \in IndexSet(<<2, 2>>) |-> <<<<4, 8>>, <<0, 4>>>>[idx[1] + 1][idx[2] + 1]])}

\* The fill_value argument of mask_pixels.
FillValues == {12}

\* The boolean masks of a shape.
Masks(shape) == {[shape |-> shape, elems |-> e] : e \in [IndexSet(shape) -> BOOLEAN]}

\* The number of SkyMap calls of one process.
MaxMapOps == 3

\* A SkyMap object: its data array and, for the properties, the map whose
\* method returned it (0 for a map the caller constructed).
SkyMapObject(data, parent) == [data |-> data, parent |-> parent]

MapOp(op, m, result, err) == [op |-> op, m |-> m, result |-> result, raised |-> err]

\* SkyMap(data) on a new array of the caller.
SkyMap_init ==
    /\ Len(map_ops) < MaxMapOps
    /\ \E a \in MapData :
           /\ buffers' = Append(buffers, NewBlock(a.shape, a.elems))
           /\ maps' = Append(maps, SkyMapObject(View(Len(buffers) + 1, 0, 1, a.shape), 0))
    /\ map_ops' = Append(map_ops, MapOp("SkyMap", 0, Len(maps) + 1, PyNone))
    /\ UNCHANGED outside_skymap

\* The map SkyMap.copy returns: SkyMap(data=self.data.copy(), ...).
CopyOf(m) ==
    [buffers |-> Append(buffers, NewBlock(maps[m].data.shape, Pixels(buffers, maps[m].data))),
     map     |-> SkyMapObject(View(Len(buffers) + 1, 0, 1, maps[m].data.shape), m)]

SkyMap_copy ==
    /\ Len(map_ops) < MaxMapOps
    /\ \E m \in 1 .. Len(maps) :
           /\ buffers' = CopyOf(m).buffers
           /\ maps' = Append(maps, CopyOf(m).map)
           /\ map_ops' = Append(map_ops, MapOp("copy", m, Len(maps) + 1, PyNone))
    /\ UNCHANGED outside_skymap

\* SkyMap.smooth: a warning, then self.copy().
SkyMap_smooth ==
    /\ Len(map_ops) < MaxMapOps
    /\ \E m \in 1 .. Len(maps) :
           /\ buffers' = CopyOf(m).buffers
           /\ maps' = Append(maps, CopyOf(m).map)
           /\ map_ops' = Append(map_ops, MapOp("smooth", m, Len(maps) + 1, PyNone))
    /\ UNCHANGED outside_skymap

\* SkyMap.downgrade: for 1-D data the slice self.data[::factor], which
\* SkyMap.__init__ keeps as it is (np.asarray of an array is that array); for
\* 2-D data a new array of block means.
SkyMap_downgrade ==
    /\ Len(map_ops) < MaxMapOps
    /\ \E m \in 1 .. Len(maps) : \E factor \in Factors :
           LET d == maps[m].data
           IN  /\ IF Len(d.shape) = 1
                  THEN /\ buffers' = buffers
                       /\ maps' = Append(maps, SkyMapObject(
                              View(d.buf, d.offset, d.step * factor,
                                   <<(d.shape[1] + factor - 1) \div factor>>), m))
                  ELSE LET shape == <<d.shape[1] \div factor, d.shape[2] \div factor>>
                       IN  /\ buffers' = Append(buffers,
                                  NewBlock(shape, BlockMeans(Pixels(buffers, d), d.shape, factor)))
                           /\ maps' = Append(maps, SkyMapObject(
                                  View(Len(buffers) + 1, 0, 1, shape), m))
               /\ map_ops' = Append(map_ops, MapOp("downgrade", m, Len(maps) + 1, PyNone))
    /\ UNCHANGED outside_skymap

\* SkyMap.mask_pixels: SkyMapError for a mask of another shape, else
\* self.data[~mask] = fill_value, written to the block under the array.
SkyMap_mask_pixels ==
    /\ Len(map_ops) < MaxMapOps
    /\ \E m \in 1 .. Len(maps) : \E fill_value \in FillValues :
       \E mask \in UNION {Masks(maps[n].data.shape) : n \in 1 .. Len(maps)} :
           LET d == maps[m].data
           IN  IF mask.shape # d.shape
               THEN /\ buffers' = buffers
                    /\ map_ops' = Append(map_ops, MapOp("mask_pixels", m, 0, "SkyMapError"))
               ELSE /\ buffers' = [buffers EXCEPT ![d.buf] =
                           [p \in DOMAIN @ |->
                               IF \E idx \in IndexSet(d.shape) :
                                      Pos(d, idx) = p /\ ~mask.elems[idx]
                               THEN fill_value ELSE @[p]]]
                    /\ map_ops' = Append(map_ops, MapOp("mask_pixels", m, 0, PyNone))
    /\ UNCHANGED <<maps, outside_skymap>>

\* No SkyMap exists when the package is imported.
MapInit ==
    /\ buffers = <<>>
    /\ maps = <<>>
    /\ map_ops = <<>>

-----------------------------------------------------------------------------
(* compression.py called from several threads *)

\* The number of threads calling the codec at the same time.
NumThreads == 2

Threads == 1 .. NumThreads

\* The frame holding the local variables of the call of thread t: every
\* call of a Python function has a frame of its own.
Local_Shared(t) == 1

Local(t) == t

\* The local variables of the functions of compression.py.
NewFrame ==
    [shape |-> <<>>, flat_map |-> <<>>, n_keep |-> 0, indices |-> <<>>, values |-> <<>>,
     original_size |-> 0, compressed_size |-> 0]

CompressArgs(a, r, m) == [skymap |-> a, compression_ratio |-> r, method |-> m]

DecompressArgs(d) == [compressed_data |-> d]

\* The calls of the threads, each on an array or a dictionary of its own.
ThreadCalls ==
    {[func |-> "compress_skymap", arg |-> CompressArgs(a, <<5, 10>>, m)] :
         a \in {x \in SessionInputs : x.elems[<<1>>] # 0}, m \in {"wavelet", "pca"}}
    \cup {[func |-> "compress_skymap", arg |-> CompressArgs(PlainList, <<5, 10>>, "wavelet")]}
    \cup {[func |-> "decompress_skymap", arg |-> DecompressArgs(d)] :
             d \in {x \in SessionDicts : x.values[1] = 1 /\ x.indices[1] \in {1, 3}}}
    \cup {[func |-> "decompress_skymap", arg |-> DecompressArgs([d EXCEPT !.method = "svd"])] :
             d \in {x \in SessionDicts : x.values[1] = 1 /\ x.indices[1] = 0
                                           /\ x.method = "wavelet"}}
    \cup {[func |-> "get_compression_info", arg |-> DecompressArgs(d)] :
             d \in {WaveletDict(a, <<5, 10>>, <<0, 1>>) :
                       a \in {x \in SessionInputs : x.elems[<<1>>] = -2}}
                   \cup {[type |-> "dict", method |-> "wavelet"]}}

\* The result of compress_skymap when the call runs alone.
CompressAlone(a) ==
    IF ~isinstance_ndarray(a.skymap)
    THEN {CompressionError("Input must be a numpy array", "compress_skymap")}
    ELSE IF ~RatioInRange(a.compression_ratio)
    THEN {CompressionError("Compression ratio must be between 0 and 1", "compress_skymap")}
    ELSE IF CompressDispatch(a.method) = "raise"
    THEN {CompressionError("Unknown compression method", "compress_skymap")}
    ELSE {WaveletDict(a.skymap, a.compression_ratio, order) :
             order \in argsort(np_abs(flatten(a.skymap)))}

\* The result of decompress_skymap when the call runs alone.
DecompressAlone(a) ==
    IF ~isinstance_dict(a.compressed_data)
    THEN {CompressionError("Compressed data must be a dictionary", "decompress_skymap")}
    ELSE IF GetMethod(a.compressed_data) = PyNone
    THEN {CompressionError("Compression method not found in data", "decompress_skymap")}
    ELSE IF DecompressDispatch(GetMethod(a.compressed_data)) = "raise"
    THEN {CompressionError("Unknown compression method", "decompress_skymap")}
    ELSE DecompressWavelet(a.compressed_data)

\* The results a call can give when it runs alone.
Alone(func, arg) ==
    CASE func = "compress_skymap"      -> CompressAlone(arg)
      [] func = "decompress_skymap"    -> DecompressAlone(arg)
      [] func = "get_compression_info" -> {InfoOf(arg.compressed_data)}

\* Whether a thread other than t is inside a call.
OthersInCall(t) == \E u \in Threads \ {t} : threads[u].pc \notin {"idle", "ended"}

\* Thread t moves to position p.
Goto(t, p) ==
    threads' = [threads EXCEPT ![t].pc = p,
                               ![t].overlapped = @ \/ OthersInCall(t)]

\* The call of thread t returns or raises out.
Return(t, out) ==
    threads' = [threads EXCEPT ![t].pc = "ended", ![t].out = out,
                               ![t].overlapped = @ \/ OthersInCall(t)]

\* A thread calls a function of the codec: the call gets a new frame.
thread_call ==
    /\ \E t \in Threads : \E c \in ThreadCalls :
           /\ threads[t].pc = "idle"
           /\ threads' = [threads EXCEPT ![t] =
                  [func |-> c.func, arg |-> c.arg, pc |-> c.func, out |-> None,
                   warned |-> <<>>, overlapped |-> FALSE]]
           /\ frames' = [frames EXCEPT ![Local(t)] = NewFrame]
    /\ UNCHANGED outside_threads

\* compress_skymap: the checks and the dispatch.
thread_compress_skymap ==
    /\ \E t \in Threads :
           /\ threads[t].pc = "compress_skymap"
           /\ LET a == threads[t].arg
              IN  IF ~isinstance_ndarray(a.skymap)
                  THEN Return(t, CompressionError("Input must be a numpy array",
                                                  "compress_skymap"))
                  ELSE IF ~RatioInRange(a.compression_ratio)
                  THEN Return(t, CompressionError("Compression ratio must be between 0 and 1",
                                                  "compress_skymap"))
                  ELSE IF CompressDispatch(a.method) = "raise"
                  THEN Return(t, CompressionError("Unknown compression method",
                                                  "compress_skymap"))
                  ELSE Goto(t, CompressDispatch(a.method))
    /\ UNCHANGED <<frames, outside_threads>>

\* _compress_pca, _compress_svd: the warning, then _compress_wavelet.
thread_compress_placeholder ==
    /\ \E t \in Threads :
           /\ threads[t].pc \in {"_compress_pca", "_compress_svd"}
           /\ threads' = [threads EXCEPT
                  ![t].pc = "_compress_wavelet",
                  ![t].warned = Append(@, IF threads[t].pc = "_compress_pca"
                                          THEN "PCA compression is not yet fully implemented"
                                          ELSE "SVD compression is not yet fully implemented"),
                  ![t].overlapped = @ \/ OthersInCall(t)]
    /\ UNCHANGED <<frames, outside_threads>>

\* _compress_wavelet: flat_map = skymap.flatten(); n_keep = max(1, ...)
thread_compress_flatten ==
    /\ \E t \in Threads :
           /\ threads[t].pc = "_compress_wavelet"
           /\ LET flat_map == flatten(threads[t].arg.skymap)
              IN  frames' = [frames EXCEPT
                      ![Local(t)].flat_map = flat_map,
                      ![Local(t)].n_keep =
                          NKeep(Len(flat_map), threads[t].arg.compression_ratio)]
           /\ Goto(t, "_compress_wavelet: indices")
    /\ UNCHANGED outside_threads

\* _compress_wavelet: indices = np.argsort(np.abs(flat_map))[-n_keep:]
thread_compress_indices ==
    /\ \E t \in Threads :
           /\ threads[t].pc = "_compress_wavelet: indices"
           /\ \E order \in argsort(np_abs(frames[Local(t)].flat_map)) :
                  frames' = [frames EXCEPT ![Local(t)].indices =
                                SelectIndices(order, frames[Local(t)].n_keep)]
           /\ Goto(t, "_compress_wavelet: return")
    /\ UNCHANGED outside_threads

\* _compress_wavelet: compressed_values = flat_map[indices] and the
\* dictionary returned.
thread_compress_return ==
    /\ \E t \in Threads :
           /\ threads[t].pc = "_compress_wavelet: return"
           /\ LET a       == threads[t].arg
                  indices == frames[Local(t)].indices
                  values  == take(frames[Local(t)].flat_map, indices)
              IN  /\ frames' = [frames EXCEPT ![Local(t)].values = values]
                  /\ Return(t, [type              |-> "dict",
                                method            |-> "wavelet",
                                shape             |-> a.skymap.shape,
                                indices           |-> indices,
                                values            |-> values,
                                compression_ratio |-> a.compression_ratio,
                                original_size     |-> nbytes(Size(a.skymap.shape), ItemSize),
                                compressed_size   |-> nbytes(Len(indices), IndexItemSize)
                                                          + nbytes(Len(values), ItemSize)])
    /\ UNCHANGED outside_threads

\* decompress_skymap: the checks and the dispatch.
thread_decompress_skymap ==
    /\ \E t \in Threads :
           /\ threads[t].pc = "decompress_skymap"
           /\ LET d == threads[t].arg.compressed_data
              IN  IF ~isinstance_dict(d)
                  THEN Return(t, CompressionError("Compressed data must be a dictionary",
                                                  "decompress_skymap"))
                  ELSE IF GetMethod(d) = PyNone
                  THEN Return(t, CompressionError("Compression method not found in data",
                                                  "decompress_skymap"))
                  ELSE IF DecompressDispatch(GetMethod(d)) = "raise"
                  THEN Return(t, CompressionError("Unknown compression method",
                                                  "decompress_skymap"))
                  ELSE Goto(t, DecompressDispatch(GetMethod(d)))
    /\ UNCHANGED <<frames, outside_threads>>

\* _decompress_pca, _decompress_svd: the warning, then _decompress_wavelet.
thread_decompress_placeholder ==
    /\ \E t \in Threads :
           /\ threads[t].pc \in {"_decompress_pca", "_decompress_svd"}
           /\ threads' = [threads EXCEPT
                  ![t].pc = "_decompress_wavelet",
                  ![t].warned = Append(@, IF threads[t].pc = "_decompress_pca"
                                          THEN "PCA decompression is not yet fully implemented"
                                          ELSE "SVD decompression is not yet fully implemented"),
                  ![t].overlapped = @ \/ OthersInCall(t)]
    /\ UNCHANGED <<frames, outside_threads>>

\* _decompress_wavelet: shape, indices, values read from the dictionary and
\* flat_map = np.zeros(np.prod(shape))
thread_decompress_zeros ==
    /\ \E t \in Threads :
           /\ threads[t].pc = "_decompress_wavelet"
           /\ LET d == threads[t].arg.compressed_data
                  n == np_prod(d.shape)
              IN  IF n.dtype # "int64"
                  THEN /\ frames' = [frames EXCEPT ![Local(t)].shape = d.shape,
                                                   ![Local(t)].indices = d.indices,
                                                   ![Local(t)].values = d.values]
                       /\ Return(t, OtherError("TypeError", "_decompress_wavelet"))
                  ELSE /\ frames' = [frames EXCEPT ![Local(t)].shape = d.shape,
                                                   ![Local(t)].indices = d.indices,
                                                   ![Local(t)].values = d.values,
                                                   ![Local(t)].flat_map = np_zeros(n.val)]
                       /\ Goto(t, "_decompress_wavelet: assign")
    /\ UNCHANGED outside_threads

\* _decompress_wavelet: flat_map[indices] = values; return
\* flat_map.reshape(shape)
thread_decompress_assign ==
    /\ \E t \in Threads :
           /\ threads[t].pc = "_decompress_wavelet: assign"
           /\ LET f        == frames[Local(t)]
                  n        == Len(f.flat_map)
                  badIndex == \E k \in 1 .. Len(f.indices) :
                                  f.indices[k] >= n \/ f.indices[k] < -n
                  badLen   == Len(f.values) # Len(f.indices) /\ Len(f.values) # 1
              IN  IF badIndex \/ badLen
                  THEN /\ \E e \in {x \in {"IndexError"} : badIndex}
                                       \cup {x \in {"ValueError"} : badLen} :
                              Return(t, OtherError(e, "_decompress_wavelet"))
                       /\ UNCHANGED frames
                  ELSE /\ frames' = [frames EXCEPT ![Local(t)].flat_map =
                                        Scatter(f.flat_map, f.indices, f.values, 1)]
                       /\ Return(t, reshape(Scatter(f.flat_map, f.indices, f.values, 1),
                                            f.shape))
    /\ UNCHANGED outside_threads

\* get_compression_info: original_size and compressed_size read from the
\* dictionary.
thread_info_sizes ==
    /\ \E t \in Threads :
           /\ threads[t].pc = "get_compression_info"
           /\ LET d == threads[t].arg.compressed_data
              IN  frames' = [frames EXCEPT
                      ![Local(t)].original_size = DictGet(d, "original_size", 0),
                      ![Local(t)].compressed_size = DictGet(d, "compressed_size", 0)]
           /\ Goto(t, "get_compression_info: return")
    /\ UNCHANGED outside_threads

\* get_compression_info: the ratio and the mapping returned.
thread_info_return ==
    /\ \E t \in Threads :
           /\ threads[t].pc = "get_compression_info: return"
           /\ LET d     == threads[t].arg.compressed_data
                  f     == frames[Local(t)]
                  ratio == IF f.original_size > 0
                           THEN <<f.compressed_size, f.original_size>>
                           ELSE <<0, 1>>
              IN  Return(t, [method                |-> DictGet(d, "method", "unknown"),
                             original_size_bytes   |-> f.original_size,
                             compressed_size_bytes |-> f.compressed_size,
                             compression_ratio     |-> ratio,
                             space_saved_percent   |-> <<(ratio[2] - ratio[1]) * 100, ratio[2]>>,
                             shape                 |-> DictGet(d, "shape", PyNone)])
    /\ UNCHANGED <<frames, outside_threads>>

\* No call is in progress when the threads start.
ThreadInit ==
    /\ threads = [t \in Threads |->
                     [func |-> "", arg |-> None, pc |-> "idle", out |-> None,
                      warned |-> <<>>, overlapped |-> FALSE]]
    /\ frames = [t \in Threads |-> NewFrame]

-----------------------------------------------------------------------------

Init ==
    /\ skymap \in Inputs
    /\ method \in MethodNames
    /\ compression_ratio \in Ratios
    /\ pc = "compress_skymap"
    /\ compressed = None
    /\ compressed_data = None
    /\ decompressed = None
    /\ raised = None
    /\ warned = <<>>
    /\ calls = <<>>
    /\ log = <<>>
    /\ ConfigInit
    /\ MapInit
    /\ ThreadInit

Next ==
    \/ compress_skymap
    \/ _compress_wavelet
    \/ _compress_pca
    \/ _compress_svd
    \/ main_decompress
    \/ cmd_decompress
    \/ decompress_skymap
    \/ _decompress_wavelet
    \/ _decompress_pca
    \/ _decompress_svd

Spec == Init /\ [][Next]_vars

\* The call sequences of basic_usage.main: compress, then get_compression_info
\* and decompress on the result, in either order.
NextInfo ==
    \/ compress_skymap
    \/ _compress_wavelet
    \/ _compress_pca
    \/ _compress_svd
    \/ get_compression_info
    \/ main_decompress
    \/ decompress_skymap
    \/ _decompress_wavelet

SpecInfo == Init /\ [][NextInfo]_vars

\* compress, then a caller that writes into the returned values.
NextWrite ==
    \/ compress_skymap
    \/ _compress_wavelet
    \/ _compress_pca
    \/ _compress_svd
    \/ caller_write_values

SpecWrite == Init /\ [][NextWrite]_vars

\* The round trip, and a second round trip on its result.
NextTwice ==
    \/ compress_skymap
    \/ _compress_wavelet
    \/ _compress_pca
    \/ _compress_svd
    \/ main_decompress
    \/ decompress_skymap
    \/ _decompress_wavelet
    \/ recompress

SpecTwice == Init /\ [][NextTwice]_vars

\* The state of cli.cmd_decompress before it loads the file: nothing was
\* compressed in this process.
InitFile ==
    /\ skymap = None
    /\ method = PyNone
    /\ compression_ratio = <<1, 10>>
    /\ pc = "cmd_decompress"
    /\ compressed = None
    /\ compressed_data = None
    /\ decompressed = None
    /\ raised = None
    /\ warned = <<>>
    /\ calls = <<>>
    /\ log = <<>>
    /\ ConfigInit
    /\ MapInit
    /\ ThreadInit

NextFile ==
    \/ cmd_decompress_file
    \/ decompress_skymap
    \/ _decompress_wavelet
    \/ _decompress_pca
    \/ _decompress_svd

SpecFile == InitFile /\ [][NextFile]_vars

\* A process that uses the configuration store only.
NextConfig ==
    \/ Config_init
    \/ Config_set
    \/ Config_update
    \/ set_config_value
    \/ reset_config

SpecConfig == InitFile /\ [][NextConfig]_vars

\* A process that works on SkyMap objects only.
NextMaps ==
    \/ SkyMap_init
    \/ SkyMap_copy
    \/ SkyMap_smooth
    \/ SkyMap_downgrade
    \/ SkyMap_mask_pixels

SpecMaps == InitFile /\ [][NextMaps]_vars

\* Threads calling the codec at the same time, their steps interleaved in
\* any order.
NextThreads ==
    \/ thread_call
    \/ thread_compress_skymap
    \/ thread_compress_placeholder
    \/ thread_compress_flatten
    \/ thread_compress_indices
    \/ thread_compress_return
    \/ thread_decompress_skymap
    \/ thread_decompress_placeholder
    \/ thread_decompress_zeros
    \/ thread_decompress_assign
    \/ thread_info_sizes
    \/ thread_info_return

SpecThreads == InitFile /\ [][NextThreads]_vars

NextSession ==
    \/ next_compress
    \/ compress_skymap
    \/ _compress_wavelet
    \/ main_decompress
    \/ next_decompress
    \/ decompress_skymap
    \/ _decompress_wavelet

SpecSession == InitFile /\ [][NextSession]_vars

-----------------------------------------------------------------------------
(* Properties *)

ElementCount == Size(skymap.shape)

\* The value of the input array at flat index i (row-major).
At(i) == skymap.elems[UnravelIndex(i, skymap.shape)]

Kept == {compressed.indices[k] : k \in 1 .. Len(compressed.indices)}

FloorOfProduct == (ElementCount * compression_ratio[1]) \div compression_ratio[2]

\* C1: under the "wavelet" method, on a non-empty array, the returned
\* dictionary retains max(1, floor(N * r)) distinct flat indices, every
\* retained element's magnitude is >= every discarded element's magnitude,
\* and each retained value is the input's signed value at its index.
C1_LargestMagnitudesKept ==
    (compressed # None /\ method = "wavelet" /\ ElementCount >= 1) =>
        /\ Kept \subseteq 0 .. (ElementCount - 1)
        /\ Cardinality(Kept) = Max(1, FloorOfProduct)
        /\ \A i \in Kept : \A j \in (0 .. (ElementCount - 1)) \ Kept :
               Abs(At(i)) >= Abs(At(j))
        /\ \A k \in 1 .. Len(compressed.indices) :
               compressed.values[k] = At(compressed.indices[k])

\* A 2x2 input under "wavelet" where a negative value is retained and an
\* element of strictly smaller magnitude is discarded.
C1_Witness ==
    /\ compressed # None
    /\ method = "wavelet"
    /\ skymap.shape = <<2, 2>>
    /\ Cardinality(Kept) = 2
    /\ \E k \in 1 .. Len(compressed.values) : compressed.values[k] < 0
    /\ \E i \in Kept : \E j \in (0 .. 3) \ Kept : Abs(At(i)) > Abs(At(j))

\* C2: for an array of N >= 1 elements and any method, the returned
\* dictionary holds exactly max(1, floor(N * r)) indices and as many values,
\* a count between 1 and N.
C2_KeepCount ==
    (compressed # None /\ ElementCount >= 1) =>
        /\ Len(compressed.indices) = Max(1, FloorOfProduct)
        /\ Len(compressed.values) = Len(compressed.indices)
        /\ 1 <= Len(compressed.indices)
        /\ Len(compressed.indices) <= ElementCount

\* Four elements at ratio 0.5 give two indices and two values.
C2_Witness ==
    /\ compressed # None
    /\ ElementCount = 4
    /\ compression_ratio = <<5, 10>>
    /\ Len(compressed.indices) = 2
    /\ Len(compressed.values) = 2

\* The call sequence of basic_usage.main has ended: decompress_skymap was
\* given what compress_skymap returned for a non-empty array, and it has
\* returned or raised.
RoundTripEnded ==
    /\ compressed # None
    /\ ElementCount >= 1
    /\ compressed_data = compressed
    /\ pc \in {"decompressed", "raised"}

\* The reconstruction holds the input's value at every retained flat index
\* and zero at every other position.
ReconstructionMatches ==
    \A idx \in IndexSet(skymap.shape) :
        decompressed.elems[idx] =
            IF RavelIndex(idx, skymap.shape) \in Kept THEN skymap.elems[idx] ELSE 0

\* C3: for every non-empty array, method and ratio in (0,1),
\* decompress(compress(A, method, r)) equals A at every retained flat index
\* and zero at every other position.
C3_RoundTripValues ==
    RoundTripEnded =>
        /\ pc = "decompressed"
        /\ DOMAIN decompressed.elems = IndexSet(skymap.shape)
        /\ ReconstructionMatches

\* C4: for every non-empty array of any dimensionality, registered method
\* and ratio in (0,1), decompress(compress(A, method, r)) succeeds and its
\* shape is the shape of A.
C4_ShapePreserved ==
    RoundTripEnded =>
        /\ raised = None
        /\ decompressed # None
        /\ decompressed.shape = skymap.shape

\* C5: when elements of equal magnitude straddle the n_keep cut, the ones
\* with the smaller flat indices are the ones retained.
C5_TieBreakAscending ==
    (compressed # None /\ ElementCount >= 1) =>
        \A i \in 0 .. (ElementCount - 1) : \A j \in 0 .. (ElementCount - 1) :
            (i < j /\ Abs(At(i)) = Abs(At(j)) /\ j \in Kept) => i \in Kept

\* C6: the indices of a returned dictionary are strictly ascending, lie in
\* [0, product(shape)), and values[k] is the input's value at indices[k].
C6_IndicesAscending ==
    compressed # None =>
        /\ \A k \in 1 .. (Len(compressed.indices) - 1) :
               compressed.indices[k] < compressed.indices[k + 1]
        /\ \A k \in 1 .. Len(compressed.indices) :
               /\ 0 <= compressed.indices[k]
               /\ compressed.indices[k] < Size(compressed.shape)
               /\ compressed.values[k] = At(compressed.indices[k])

Entered(f) == \E k \in 1 .. Len(calls) : calls[k] = f

\* C7: a ratio not strictly inside (0,1) makes compress_skymap raise
\* CompressionError, for every input and method name; no dictionary is
\* returned and no compressor is entered.
C7_RatioRejected ==
    ~(0 < compression_ratio[1] /\ compression_ratio[1] < compression_ratio[2]) =>
        /\ compressed = None
        /\ pc \in {"compress_skymap", "raised"}
        /\ pc = "raised" =>
               /\ raised.type = "CompressionError"
               /\ raised.func = "compress_skymap"
               /\ calls = <<"compress_skymap">>

\* Ratio 1.0 on an array with the "wavelet" method has been refused.
C7_Witness ==
    /\ pc = "raised"
    /\ compression_ratio = <<10, 10>>
    /\ skymap.type = "ndarray"
    /\ method = "wavelet"
    /\ raised.type = "CompressionError"
    /\ raised.msg = "Compression ratio must be between 0 and 1"

\* C8: a method name outside the registry makes compress_skymap raise
\* CompressionError before any work on the array: no compressor is entered
\* and no dictionary is built; with a valid array and ratio the error is the
\* unknown-method one.
C8_UnknownMethodRejected ==
    method \notin {"wavelet", "pca", "svd"} =>
        /\ compressed = None
        /\ ~Entered("_compress_wavelet")
        /\ ~Entered("_compress_pca")
        /\ ~Entered("_compress_svd")
        /\ pc \in {"compress_skymap", "raised"}
        /\ pc = "raised" =>
               /\ raised.type = "CompressionError"
               /\ raised.func = "compress_skymap"
               /\ (/\ skymap.type = "ndarray"
                   /\ 0 < compression_ratio[1]
                   /\ compression_ratio[1] < compression_ratio[2])
                  => raised.msg = "Unknown compression method"

\* "bogus" on a non-empty array with a valid ratio has been refused.
C8_Witness ==
    /\ pc = "raised"
    /\ method = "bogus"
    /\ skymap.type = "ndarray"
    /\ ElementCount >= 1
    /\ compression_ratio = <<4, 10>>
    /\ raised.msg = "Unknown compression method"
    /\ calls = <<"compress_skymap">>

\* C9: for an array with zero elements the compress_skymap call ends by
\* raising CompressionError, before any transform; no dictionary is ever
\* returned for it.
C9_EmptyArrayRejected ==
    (/\ skymap.type = "ndarray"
     /\ ElementCount = 0
     /\ pc \notin {"compress_skymap", "_compress_wavelet", "_compress_pca", "_compress_svd"})
    =>
        /\ pc = "raised"
        /\ raised.type = "CompressionError"
        /\ compressed = None
        /\ ~Entered("_compress_wavelet")

\* C10: "pca" and "svd", which have no implementation of their own, are
\* refused: compress_skymap returns no dictionary for them, decompress_skymap
\* returns no array for a dictionary tagged with them, and the "wavelet"
\* code is never run in their place.
C10_UnimplementedRefused ==
    /\ method \in {"pca", "svd"} =>
           /\ compressed = None
           /\ ~Entered("_compress_wavelet")
    /\ (compressed_data # None /\ compressed_data.method \in {"pca", "svd"}) =>
           /\ decompressed = None
           /\ ~Entered("_decompress_wavelet")

\* C11: a returned dictionary's method entry is the requested method name,
\* its shape the input's shape and its compression_ratio the requested
\* ratio, for every registered method.
C11_EnvelopeMetadata ==
    compressed # None =>
        /\ compressed.method = method
        /\ compressed.shape = skymap.shape
        /\ compressed.compression_ratio = compression_ratio

\* C16: a returned dictionary records original_size = 8 * N and
\* compressed_size = (number of retained pairs) * (8 + 8), which for N >= 1
\* is max(1, floor(N * r)) * 16.
C16_SizeBookkeeping ==
    compressed # None =>
        /\ compressed.original_size = 8 * ElementCount
        /\ compressed.compressed_size = Len(compressed.indices) * (8 + 8)
        /\ ElementCount >= 1 =>
               compressed.compressed_size = Max(1, FloorOfProduct) * (8 + 8)

\* Four elements at ratio 0.9: 32 bytes in, three pairs of 16 bytes out.
C16_Witness ==
    /\ compressed # None
    /\ ElementCount = 4
    /\ compression_ratio = <<9, 10>>
    /\ compressed.original_size = 32
    /\ compressed.compressed_size = 48

\* C12: for a dictionary returned by compress_skymap with original_size > 0,
\* get_compression_info reports 0 <= compression_ratio <= 1 and
\* 0 <= space_saved_percent <= 100.
C12_InfoRatioBounded ==
    \A k \in InfoCalls :
        log[k].out.original_size_bytes > 0 =>
            /\ 0 <= log[k].out.compression_ratio[1]
            /\ log[k].out.compression_ratio[1] <= log[k].out.compression_ratio[2]
            /\ 0 <= log[k].out.space_saved_percent[1]
            /\ log[k].out.space_saved_percent[1] <= 100 * log[k].out.space_saved_percent[2]

C18_InputNeverMutated == [][skymap' = skymap]_vars

\* A caller has overwritten a returned value, which now differs from the
\* input's element at that index.
C18_Witness ==
    /\ pc = "written"
    /\ ElementCount >= 2
    /\ \E k \in 1 .. Len(compressed.values) :
           compressed.values[k] # At(compressed.indices[k])

\* A decompress_skymap call on a dictionary with a known method has ended.
DecodeEnded ==
    /\ pc \in {"decompressed", "raised"}
    /\ isinstance_dict(compressed_data)
    /\ DecompressDispatch(GetMethod(compressed_data)) # "raise"

\* The dictionary has as many values as indices.
LengthsAgree == Len(compressed_data.indices) = Len(compressed_data.values)

\* The dictionary has an index item below zero.
HasNegativeIndex ==
    \E k \in 1 .. Len(compressed_data.indices) : compressed_data.indices[k] < 0

\* The dictionary has an index item >= product(shape).
HasIndexBeyondShape ==
    \E k \in 1 .. Len(compressed_data.indices) :
        compressed_data.indices[k] >= Size(compressed_data.shape)

\* C13: decompress_skymap on a dictionary with an index >= product(shape)
\* (and nothing else wrong with it) raises CompressionError, without having
\* allocated the reconstruction buffer.
C13_IndexBeyondShapeRejected ==
    (/\ DecodeEnded
     /\ LengthsAgree
     /\ ~HasNegativeIndex
     /\ HasIndexBeyondShape)
    => /\ pc = "raised"
       /\ raised.type = "CompressionError"
       /\ ~Entered("np.zeros")

\* C14: decompress_skymap on a dictionary whose indices and values have
\* different lengths (and whose indices are all in range) raises
\* CompressionError, a single value with several indices included.
C14_LengthMismatchRejected ==
    (/\ DecodeEnded
     /\ ~LengthsAgree
     /\ ~HasNegativeIndex
     /\ ~HasIndexBeyondShape)
    => /\ pc = "raised"
       /\ raised.type = "CompressionError"

\* C15: decompress_skymap on a dictionary with a negative index, here one
\* not below -product(shape) (and nothing else wrong with the dictionary),
\* raises CompressionError and returns no array.
C15_NegativeIndexRejected ==
    (/\ DecodeEnded
     /\ LengthsAgree
     /\ HasNegativeIndex
     /\ ~HasIndexBeyondShape
     /\ \A k \in 1 .. Len(compressed_data.indices) :
            compressed_data.indices[k] >= -Size(compressed_data.shape))
    => /\ pc = "raised"
       /\ raised.type = "CompressionError"

RECURSIVE SumSq(_, _, _)
SumSq(f, g, k) ==
    IF k > Len(f) THEN 0
    ELSE (f[k] - g[k]) * (f[k] - g[k]) + SumSq(f, g, k + 1)

\* The reconstruction error: the sum of squared differences between the input
\* and a reconstruction of the same shape.
SquaredError(a, b) == SumSq(flatten(a), flatten(b), 1)

\* The reconstruction errors the round trip of a at ratio r can end with, one
\* for each outcome of the sort.
RoundTripErrors(a, r) ==
    {SquaredError(a, out) :
        out \in {o \in UNION {DecompressWavelet(WaveletDict(a, r, order)) :
                                 order \in argsort(np_abs(flatten(a)))} :
                    o.type = "ndarray"}}

\* C20: for the wavelet method, a non-empty array and accepted ratios
\* r1 <= r2, the round trip at r2 returns a reconstruction whose squared
\* error is at most the error of any round trip of the same array at r1.
C20_ErrorMonotone ==
    (RoundTripEnded /\ method = "wavelet") =>
        /\ pc = "decompressed"
        /\ \A r1 \in Ratios :
               (RatioInRange(r1) /\ r1[1] <= compression_ratio[1]) =>
                   \A e \in RoundTripErrors(skymap, r1) :
                       SquaredError(skymap, decompressed) <= e

\* C23: compress_skymap on an input that is no array raises CompressionError
\* for every method name and ratio, with the message of the input check: the
\* input is checked before the ratio and the method, and no compressor is
\* entered.
C23_NonArrayRejected ==
    (Entered("compress_skymap") /\ skymap.type # "ndarray") =>
        /\ pc = "raised"
        /\ raised = CompressionError("Input must be a numpy array", "compress_skymap")
        /\ compressed = None
        /\ calls = <<"compress_skymap">>

\* A plain list was rejected although the ratio and the method name were
\* invalid too.
C23_Witness ==
    /\ pc = "raised"
    /\ skymap = PlainList
    /\ method = "bogus"
    /\ compression_ratio = <<11, 10>>
    /\ raised.msg = "Input must be a numpy array"

\* C26: decompress_skymap raises CompressionError and returns no array when
\* its argument is no dictionary, has no method entry or has a method name
\* outside the registry; no decompressor is entered, so shape, indices and
\* values are not read.
C26_BadEnvelopeRejected ==
    (/\ Entered("decompress_skymap")
     /\ \/ compressed_data.type # "dict"
        \/ "method" \notin DOMAIN compressed_data
        \/ compressed_data.method \notin {"wavelet", "pca", "svd"})
    => /\ pc = "raised"
       /\ raised.type = "CompressionError"
       /\ raised.func = "decompress_skymap"
       /\ decompressed = None
       /\ calls = <<"decompress_skymap">>

\* A dictionary with an unknown method name and no shape, indices or values
\* was rejected.
C26_Witness ==
    /\ pc = "raised"
    /\ compressed_data = [type |-> "dict", method |-> "bogus"]
    /\ raised.msg = "Unknown compression method"

\* C28: for every non-empty array, registered method and ratio in (0,1), the
\* round trip returns an array R, and the round trip of R with the same
\* method and ratio returns R again.
C28_RoundTripIdempotent ==
    RoundTripEnded =>
        /\ pc = "decompressed"
        /\ Len(log) = 2 => log[2].out = log[1].out

\* The configuration call that ended last.
LastOp == ops[Len(ops)]

\* The split keys of DEFAULT_CONFIG: the sections and their entries.
DefaultKeyPaths ==
    {<<sec>> : sec \in DOMAIN DefaultHeap[DEFAULT_CONFIG].sub}
    \cup UNION {{<<sec, k>> : k \in DOMAIN DefaultHeap[DefaultHeap[DEFAULT_CONFIG].sub[sec]].leaf} :
                   sec \in DOMAIN DefaultHeap[DEFAULT_CONFIG].sub}

\* The value the text of config.py gives a key of DEFAULT_CONFIG.
PackagedDefault(keys) == GetPath(DefaultHeap, DEFAULT_CONFIG, keys, 1, Value(PyNone))

\* C24: right after reset_config(), get_config_value(k) is the packaged
\* default for every key k of DEFAULT_CONFIG, nested keys included, whatever
\* set_config_value, Config.set and Config.update calls came before.
C24_ResetRestoresDefaults ==
    (Len(ops) > 0 /\ LastOp.op = "reset_config") =>
        \A keys \in DefaultKeyPaths :
            get_config_value(keys, Value(PyNone)) = PackagedDefault(keys)

\* The split keys read back in the properties below.
ProbeKeys ==
    SetKeys \cup {<<"io", "default_format">>, <<"compression", "default_method">>,
                  <<"compression">>, <<"missing", "key">>,
                  <<"compression", "default_ratio", "x">>}

\* Every intermediate component of the split key is absent or a dict.
RECURSIVE PathOpen(_, _, _, _)
PathOpen(h, id, keys, k) ==
    \/ k = Len(keys)
    \/ keys[k] \notin DictKeys(h[id])
    \/ /\ keys[k] \in DOMAIN h[id].sub
       /\ PathOpen(h, h[id].sub[keys[k]], keys, k + 1)

\* One Config.set call (set_config_value is one on the global object) in a
\* step: with an open path it returns and get(key) is then the value; get of
\* a key with another first component is what it was before the call. And
\* get of a key whose first component is absent, or is no dict while more
\* components follow, is the supplied default.
SetThenGet ==
    LET o == ops'[Len(ops')]
    IN  /\ (Len(ops') = Len(ops) + 1 /\ o.op \in {"Config.set", "set_config_value"}) =>
               /\ PathOpen(heap, configs[o.c], o.keys, 1) =>
                      /\ o.raised = PyNone
                      /\ GetPath(heap', configs'[o.c], o.keys, 1, Value(PyNone))
                             = Value(o.value)
               /\ \A keys \in ProbeKeys :
                      keys[1] # o.keys[1] =>
                          GetPath(heap', configs'[o.c], keys, 1, Value(PyNone))
                              = Config_get(o.c, keys, Value(PyNone))
        /\ \A c \in 1 .. Len(configs') : \A keys \in ProbeKeys :
               \A default \in {Value(PyNone), Value("fallback")} :
                   (\/ keys[1] \notin DictKeys(heap'[configs'[c]])
                    \/ Len(keys) > 1 /\ keys[1] \in DOMAIN heap'[configs'[c]].leaf) =>
                       GetPath(heap', configs'[c], keys, 1, default) = default

\* C25: on one Config object, set(key, v) then get(key) gives v when the
\* intermediate components of key are absent (they are created) or dicts; get
\* of a key that shares no leading component is unchanged by the set; get of a
\* missing key gives the supplied default.
C25_SetThenGet == [][SetThenGet]_vars

\* A set of new.sub on a Config object other than the global one created the
\* dict new, and get gives the value back.
C25_Witness ==
    /\ Len(ops) >= 2
    /\ LastOp.op = "Config.set"
    /\ LastOp.c # _global_config
    /\ LastOp.keys = <<"new", "sub">>
    /\ LastOp.raised = PyNone
    /\ Config_get(LastOp.c, <<"new", "sub">>, Value(PyNone)) = Value("0.5")
    /\ Config_get(LastOp.c, <<"new">>, Value(PyNone))
           = [dict |-> [leaf |-> "sub" :> "0.5", sub |-> EmptyMap]]

\* One step: a set or update call on one Config object leaves what get gives
\* on every other Config object as it was, and a Config() constructed in the
\* step starts with the packaged defaults.
IsolatedStep ==
    LET o == ops'[Len(ops')]
    IN  Len(ops') = Len(ops) + 1 =>
            /\ o.op \in {"Config.set", "Config.update", "set_config_value"} =>
                   \A c \in (1 .. Len(configs)) \ {o.c} : \A keys \in ProbeKeys :
                       GetPath(heap', configs'[c], keys, 1, Value(PyNone))
                           = Config_get(c, keys, Value(PyNone))
            /\ o.op = "Config()" =>
                   Deep(heap', configs'[o.c]) = Deep(DefaultHeap, DEFAULT_CONFIG)

\* C27: no set or update call on one Config object changes what get gives on
\* another, separately constructed Config object, nor the values a later
\* Config() starts with.
C27_InstancesIsolated == [][IsolatedStep]_vars

\* The arguments of the compress_skymap call are ones it rejects.
CompressArgsInvalid ==
    \/ skymap.type # "ndarray"
    \/ ~(0 < compression_ratio[1] /\ compression_ratio[1] < compression_ratio[2])
    \/ method \notin {"wavelet", "pca", "svd"}

\* The argument of the decompress_skymap call is one its own checks reject.
DecompressArgInvalid ==
    \/ compressed_data.type # "dict"
    \/ "method" \notin DOMAIN compressed_data
    \/ compressed_data.method \notin {"wavelet", "pca", "svd"}

\* One step that ends a call with an exception changes neither the input
\* array, nor the dictionary given to decompress_skymap, nor an earlier
\* result, nor the configuration; and the exception is due to the call's own
\* arguments, not to an earlier failure: the checks of compress_skymap and
\* decompress_skymap raise only for arguments they reject, and a decompressor
\* raises only what it raises for this dictionary in every other call.
ErrorStep ==
    (pc' = "raised" /\ pc # "raised") =>
        /\ UNCHANGED <<skymap, method, compression_ratio, compressed_data, compressed,
                       decompressed, outside_codec>>
        /\ raised'.func = "compress_skymap" => CompressArgsInvalid
        /\ raised'.func = "decompress_skymap" => DecompressArgInvalid
        /\ \A i \in DecompressCalls : \A j \in 1 .. Len(log') :
               (log'[j].func = "decompress_skymap" /\ log'[j].arg = log[i].arg) =>
                   log'[j].out = log[i].out

\* C22: a compress_skymap or decompress_skymap call that raises leaves its
\* input and the global configuration unchanged, and no later call is
\* affected by it.
C22_ErrorIsLocal ==
    [][/\ ErrorStep
       /\ \A i \in DecompressCalls : \A j \in 1 .. Len(log') :
              (/\ log'[j].func = "decompress_skymap"
               /\ log'[j].arg = log[i].arg
               /\ raised # None) => log'[j].out = log[i].out]_vars

\* A dictionary was decompressed, then a call failed, then the same dictionary
\* was decompressed again.
C22_Witness ==
    /\ pc = "decompressed"
    /\ Len(log) = 3
    /\ log[1].out.type = "ndarray"
    /\ log[2].out.type \in {"IndexError", "CompressionError"}
    /\ log[3].arg = log[1].arg
    /\ raised = log[2].out

\* The SkyMap call that ended last.
LastMapOp == map_ops[Len(map_ops)]

\* One step: a mask_pixels call on a map that copy, smooth or downgrade
\* returned leaves every pixel of the map that method was called on as it
\* was.
MaskStep ==
    LET o == map_ops'[Len(map_ops')]
    IN  (/\ Len(map_ops') = Len(map_ops) + 1
         /\ o.op = "mask_pixels"
         /\ maps[o.m].parent # 0)
        => Pixels(buffers', maps[maps[o.m].parent].data)
               = Pixels(buffers, maps[maps[o.m].parent].data)

\* C29: the map SkyMap.downgrade returns (as the ones copy and smooth
\* return) shares no pixel data with the map it was called on: mask_pixels on
\* the returned map changes no pixel of the original, for 1-D and 2-D data
\* and every factor >= 1.
C29_ResultSharesNoPixels == [][MaskStep]_vars

\* One step of a thread: the frames and the calls of the other threads are
\* as before, and a result that ends the call is one the call gives alone.
ThreadStep ==
    \A t \in Threads :
        threads'[t] # threads[t] =>
            /\ \A u \in Threads \ {t} :
                   /\ threads'[u] = threads[u]
                   /\ frames'[Local(u)] = frames[Local(u)]
            /\ (threads'[t].pc = "ended" /\ threads[t].pc # "ended")
                   => threads'[t].out \in Alone(threads'[t].func, threads'[t].arg)

====
